---- MODULE Spec2Model ----
(***************************************************************************)
(* AgentTrainer (src/src/trainings/agent_trainer.py): the training control *)
(* loop, the evaluator, the episode runner, the checkpoint save and the    *)
(* session load, as one sequential state machine.  One controller object   *)
(* is constructed in Init; its caller may call train(), evaluate() and the *)
(* static from_checkpoint() whenever no call is in progress.               *)
(***************************************************************************)
EXTENDS Integers, Sequences, FiniteSets, TLC

VARIABLES
    config_data,                  \* self.config_data
    attrs,                        \* the attributes _load_config sets
    episode,                      \* self.episode
    train_returns,                \* self.train_returns
    eval_returns,                 \* self.eval_returns
    train_steps,                  \* self.train_steps
    pc,                           \* position of the single thread of control
    it,                           \* next value of range(self.train_episodes)
    best_eval_return,             \* local of train()
    episodes_without_improvement, \* local of train()
    eval_return,                  \* local of train()
    training,                     \* argument of _run_episode
    step,                         \* steps taken in the running episode
    episode_return,               \* local of _run_episode
    eval_caller,                  \* who called evaluate(): "train" or "user"
    num_episodes,                 \* argument of evaluate()
    eval_list,                    \* local list eval_returns of evaluate()
    agent_updates,                \* agent.update calls received (agent state)
    dirs,                         \* directories that exist under save_path
    files,                        \* content of every checkpoint file
    result,                       \* outcome of the last finished call
    loaded,                       \* outcome of the last from_checkpoint call
    calls,                        \* train() calls started
    ops,                          \* calls of any kind made by the caller
    evalLog,                      \* history: one entry per appended evaluation
    saveLog,                      \* history: <<call, episode>> of every save
    stopped,                      \* history: where the running call stopped
    iter,                         \* history: what the running iteration did
    evalEntry,                    \* history: session at entry of evaluate()
    callStart,                    \* history: session at entry of train()
    check,                        \* history: the last early-stopping check
    ctor,                         \* how AgentTrainer(...) ended
    tracker,                      \* history: early stopping over the session
    steps_log                     \* history: <<reward, done>> of each step

vars == <<config_data, attrs, episode, train_returns, eval_returns,
          train_steps, pc, it, best_eval_return,
          episodes_without_improvement, eval_return, training, step,
          episode_return, eval_caller, num_episodes, eval_list,
          agent_updates, dirs, files, result, loaded, calls, ops, evalLog,
          saveLog, stopped, iter, evalEntry, callStart, check, ctor, tracker,
          steps_log>>

----------------------------------------------------------------------------
(* Bounds of the model. *)

MaxCalls == 2        \* calls the caller makes: train, evaluate, from_checkpoint
MaxTrainCalls == 2   \* train() calls among them, see TrainBudget

(* env.step() returns a reward the controller does not choose. *)
Rewards == {0, 1}

(* float('-inf'), written as the fraction -1/0. *)
NegInf == [num |-> -1, den |-> 0]

----------------------------------------------------------------------------
(* Configuration.  config_data is the reader's parameter map; the keys are *)
(* the ones _load_config asks for.                                         *)

SavePath == "checkpoints"
LogPath == "logs"

Config(te, ee, ef, ms, sf, pat, mi) ==
    [train_episodes |-> te, eval_episodes |-> ee, eval_frequency |-> ef,
     max_steps_per_episode |-> ms, save_frequency |-> sf,
     save_path |-> SavePath, log_path |-> LogPath,
     early_stop_patience |-> pat, early_stop_min_improvement |-> mi]

(* Configurations on which the caller calls train() more than once. *)
RepeatConfigs == { Config(3, 1, 1, 1, 1, 1, 0) }

(* The configurations a controller is constructed with: arguments are      *)
(* train_episodes, eval_episodes, eval_frequency, max_steps_per_episode,   *)
(* save_frequency, early_stop_patience, early_stop_min_improvement.        *)
Configs ==
    RepeatConfigs \cup
    { Config(3, 2, 2, 1, 2, 2, 1),
      Config(2, 1, 2, 2, 1, 1, 1),
      Config(2, 1, 1, 2, 1, 1, 0),
      Config(2, 1, 1, 2, 1, 1, 2) }

(* train() calls the caller makes on a controller with configuration c. *)
TrainBudget(c) == IF c \in RepeatConfigs THEN MaxTrainCalls ELSE 1

(* ConfigReader.get_param: the value stored under a key. *)
get_param(reader, key) == reader[key]

(* AgentTrainer._load_config: the attributes read from the reader. *)
load_config(reader) ==
    [train_episodes |-> get_param(reader, "train_episodes"),
     eval_episodes |-> get_param(reader, "eval_episodes"),
     eval_frequency |-> get_param(reader, "eval_frequency"),
     max_steps_per_episode |-> get_param(reader, "max_steps_per_episode"),
     save_frequency |-> get_param(reader, "save_frequency"),
     save_path |-> get_param(reader, "save_path"),
     log_path |-> get_param(reader, "log_path"),
     early_stop_patience |-> get_param(reader, "early_stop_patience"),
     early_stop_min_improvement |-> get_param(reader, "early_stop_patience")]

(* The keys _load_config asks the reader for. *)
KeysRead ==
    {"train_episodes", "eval_episodes", "eval_frequency",
     "max_steps_per_episode", "save_frequency", "save_path", "log_path",
     "early_stop_patience"}

NoAttrs == [missing |-> TRUE]

(* ConfigReader.get_param on a reader that may lack the key: the lookup of *)
(* a missing key raises KeyError, which __init__ does not catch.           *)
construct(reader) ==
    IF KeysRead \subseteq DOMAIN reader
      THEN [status |-> "ok", attrs |-> load_config(reader)]
      ELSE [status |-> "KeyError", attrs |-> NoAttrs]

----------------------------------------------------------------------------
(* Numbers.  Episode returns are sums of integer rewards; np.mean of a     *)
(* list of them is the exact fraction sum/len, kept in lowest terms.       *)

RECURSIVE Sum(_)
Sum(s) == IF s = <<>> THEN 0 ELSE Head(s) + Sum(Tail(s))

RECURSIVE Gcd(_, _)
Gcd(a, b) == IF b = 0 THEN a ELSE Gcd(b, a % b)

Frac(n, d) ==
    LET g == Gcd(IF n < 0 THEN -n ELSE n, d)
    IN  [num |-> n \div g, den |-> d \div g]

(* np.mean(eval_returns) for a non-empty list. *)
Mean(s) == Frac(Sum(s), Len(s))

(* eval_return > best_eval_return + margin, with float('-inf') below all. *)
Exceeds(s, best, margin) ==
    IF best.den = 0 THEN TRUE
    ELSE s.num * best.den > (best.num + margin * best.den) * s.den

----------------------------------------------------------------------------
(* The checkpoint directory.  A path is <<directory, subdirectory, file>>; *)
(* the file name f"agent_ep{episode}.pt" is kept as its three parts.       *)

(* One file name for every episode. *)
FileName_same_for_all(ep) == <<"agent_ep", 0, ".pt">>

FileName(ep) == <<"agent_ep", ep, ".pt">>

(* Paths that differ in nothing but the episode: one file for all three.  *)
get_checkpoint_paths_one_directory(save_dir, ep) ==
    << <<save_dir, "agents", FileName(ep)>>,
       <<save_dir, "agents", FileName(ep)>>,
       <<save_dir, "agents", FileName(ep)>> >>

(* AgentTrainer.get_checkpoint_paths: (agent, environment, training state) *)
get_checkpoint_paths(save_dir, ep) ==
    << <<save_dir, "agents", FileName(ep)>>,
       <<save_dir, "environments", FileName(ep)>>,
       <<save_dir, "trainings", FileName(ep)>> >>

Episodes == UNION { 0..(c.train_episodes - 1) : c \in Configs }

Paths == { get_checkpoint_paths(SavePath, k)[i] : k \in Episodes, i \in 1..3 }

StatePaths == { get_checkpoint_paths(SavePath, k)[3] : k \in Episodes }

SubDirs == {"agents", "environments", "trainings"}

AllDirs == {SavePath} \cup SubDirs

Absent == [kind |-> "absent"]
Empty == [kind |-> "text", text |-> ""]
Garbage == [kind |-> "text", text |-> "not json"]

(* json.dump(obj, f): the file holds the JSON text of obj. *)
json_dump(obj) == [kind |-> "json", obj |-> obj]

(* A JSON object without the train_steps field. *)
Partial ==
    json_dump([episode |-> 0, train_returns |-> <<0>>, eval_returns |-> <<>>,
               config |-> Config(1, 1, 1, 1, 1, 1, 0)])

(* The disks a controller may be started on: an empty one, and one whose   *)
(* checkpoint directories exist and hold two files no save has written.    *)
InitialDisks ==
    { [dirs |-> {}, files |-> [p \in Paths |-> Absent]],
      [dirs |-> AllDirs,
       files |-> [p \in Paths |->
                    IF p = get_checkpoint_paths(SavePath, 0)[3] THEN Garbage
                    ELSE IF p = get_checkpoint_paths(SavePath, 1)[3] THEN Partial
                    ELSE Absent]] }

----------------------------------------------------------------------------
(* Outcomes of calls. *)

NoResult == [call |-> "none", status |-> "none"]

Returned(call, value) == [call |-> call, status |-> "returned", value |-> value]

Raised(call, exc) == [call |-> call, status |-> "raised", exc |-> exc]

NotLoaded == [status |-> "none"]

(* What a call hands back: nothing (it raised), Python's None, a trainer. *)
NoValue == [kind |-> "nothing"]
PyNone == [kind |-> "None"]
Trainer(session) == [kind |-> "trainer", session |-> session]

NotStopped == [fired |-> FALSE]

NoIter ==
    [episode |-> -1, trained |-> FALSE, evaluated |-> FALSE, saved |-> FALSE]

NoCheck == [done |-> FALSE]

(* No early-stopping check has been made in the session. *)
NoTracker ==
    [fired |-> FALSE, best |-> NegInf, without |-> 0,
     best_before |-> NegInf, fired_before |-> FALSE]

NoEntry ==
    [episode |-> -1, train_returns |-> <<>>, eval_returns |-> <<>>,
     train_steps |-> -1]

(* The session fields of the controller. *)
Session ==
    [episode |-> episode, train_returns |-> train_returns,
     eval_returns |-> eval_returns, train_steps |-> train_steps]

----------------------------------------------------------------------------
(* AgentTrainer.__init__ on a configuration of cfgs and each disk.  When  *)
(* _load_config raises there is no controller, and nothing more happens.   *)

Constructed(cfgs) ==
    /\ config_data \in cfgs
    /\ ctor = construct(config_data).status
    /\ attrs = construct(config_data).attrs
    /\ pc = IF construct(config_data).status = "ok"
              THEN "idle" ELSE "no_controller"
    /\ train_returns = <<>>
    /\ eval_returns = <<>>
    /\ train_steps = 0
    /\ episode = 0
    /\ it = 0
    /\ best_eval_return = NegInf
    /\ episodes_without_improvement = 0
    /\ eval_return = NegInf
    /\ training = FALSE
    /\ step = 0
    /\ episode_return = 0
    /\ eval_caller = "none"
    /\ num_episodes = 0
    /\ eval_list = <<>>
    /\ agent_updates = 0
    /\ \E d \in InitialDisks : dirs = d.dirs /\ files = d.files
    /\ result = NoResult
    /\ loaded = NotLoaded
    /\ calls = 0
    /\ ops = 0
    /\ evalLog = <<>>
    /\ saveLog = {}
    /\ stopped = NotStopped
    /\ iter = NoIter
    /\ evalEntry = NoEntry
    /\ callStart = NoEntry
    /\ check = NoCheck
    /\ tracker = NoTracker
    /\ steps_log = <<>>

Init == Constructed(Configs)

----------------------------------------------------------------------------
(* _run_episode *)

sessionVars == <<episode, train_returns, eval_returns, train_steps>>
trainLocals == <<it, best_eval_return, episodes_without_improvement, eval_return>>
evalLocals == <<eval_caller, num_episodes, eval_list>>
diskVars == <<dirs, files>>
configVars == <<config_data, attrs, ctor>>
callCounts == <<calls, ops>>

(* The frame of _run_episode is gone once it has returned. *)
LeaveEpisode ==
    /\ training' = FALSE
    /\ step' = 0
    /\ episode_return' = 0
    /\ steps_log' = <<>>

(* Lines 379-383: env.reset(), agent.reset(), episode_return = 0, and the  *)
(* first test of range(self.max_steps_per_episode).                        *)
EnterEpisode(tr) ==
    /\ training' = tr
    /\ step' = 0
    /\ episode_return' = 0
    /\ steps_log' = <<>>
    /\ pc' = IF attrs.max_steps_per_episode > 0 THEN "step" ELSE "episode_end"

(* An episode runner that updates the agent whatever the mode. *)
UpdatesPerStep_anymode(tr) == 1

(* Lines 392-394: agent.update calls, and train_steps increments, made by  *)
(* one step of an episode run with training = tr.                          *)
UpdatesPerStep(tr) == IF tr THEN 1 ELSE 0

(* A step loop that runs to the step budget whatever the environment says. *)
StepLoopEnds_ignoring_done(done, taken) ==
    taken >= attrs.max_steps_per_episode

(* Lines 383 and 399-400: the step loop ends after `taken` steps when the  *)
(* last one was done (`break`) or range(max_steps_per_episode) is used up. *)
StepLoopEnds(done, taken) ==
    done \/ taken >= attrs.max_steps_per_episode

(* Lines 383-400: one pass of the step loop. *)
EpisodeStep ==
    /\ pc = "step"
    /\ \E reward \in Rewards, terminated \in BOOLEAN, truncated \in BOOLEAN :
          LET done == terminated \/ truncated
          IN  /\ agent_updates' = agent_updates + UpdatesPerStep(training)
              /\ train_steps' = train_steps + UpdatesPerStep(training)
              /\ episode_return' = episode_return + reward
              /\ step' = step + 1
              /\ steps_log' = Append(steps_log, <<reward, done>>)
              /\ pc' = IF StepLoopEnds(done, step + 1)
                          THEN "episode_end" ELSE "step"
    /\ UNCHANGED <<episode, train_returns, eval_returns, training, trainLocals,
                   evalLocals, diskVars, configVars, callCounts, result,
                   loaded, tracker, evalLog, saveLog, stopped, iter, evalEntry,
                   callStart, check>>

----------------------------------------------------------------------------
(* evaluate *)

(* Lines 361-363: entry of evaluate(n). *)
EnterEvaluate(caller, n) ==
    /\ eval_caller' = caller
    /\ num_episodes' = n
    /\ eval_list' = <<>>
    /\ pc' = "eval_loop"

(* The frame of evaluate() is gone once it has returned. *)
LeaveEvaluate ==
    /\ eval_caller' = "none"
    /\ num_episodes' = 0
    /\ eval_list' = <<>>
    /\ evalEntry' = NoEntry

(* evaluate() called by the user of the controller. *)
EvalSizes == {1, 2}

Evaluate ==
    /\ pc = "idle"
    /\ ops < MaxCalls
    /\ ops' = ops + 1
    /\ \E n \in EvalSizes : EnterEvaluate("user", n)
    /\ evalEntry' = Session
    /\ result' = NoResult
    /\ UNCHANGED <<sessionVars, trainLocals, training, step, episode_return, steps_log,
                   agent_updates, diskVars, configVars, calls, loaded, tracker,
                   evalLog, saveLog, stopped, iter, callStart, check>>

(* Lines 364-367: the next evaluation episode starts. *)
EvalNext ==
    /\ pc = "eval_loop"
    /\ Len(eval_list) < num_episodes
    /\ EnterEpisode(FALSE)
    /\ UNCHANGED <<sessionVars, trainLocals, evalLocals, agent_updates,
                   diskVars, configVars, callCounts, result, loaded, tracker, evalLog,
                   saveLog, stopped, iter, evalEntry, callStart, check>>

(* Line 370: an evaluation episode returned. *)
EvalEpisodeDone ==
    /\ pc = "episode_end"
    /\ ~training
    /\ eval_list' = Append(eval_list, episode_return)
    /\ LeaveEpisode
    /\ pc' = "eval_loop"
    /\ UNCHANGED <<sessionVars, trainLocals, eval_caller, num_episodes,
                   agent_updates, diskVars, configVars, callCounts, result,
                   loaded, tracker, evalLog, saveLog, stopped, iter, evalEntry,
                   callStart, check>>

(* Line 371, returning to the user. *)
EvalReturnToUser ==
    /\ pc = "eval_loop"
    /\ Len(eval_list) >= num_episodes
    /\ eval_caller = "user"
    /\ result' = Returned("evaluate", Mean(eval_list))
    /\ LeaveEvaluate
    /\ pc' = "idle"
    /\ UNCHANGED <<sessionVars, trainLocals, training, step, episode_return, steps_log,
                   agent_updates, diskVars, configVars, callCounts, loaded, tracker,
                   evalLog, saveLog, stopped, iter, callStart, check>>

----------------------------------------------------------------------------
(* train *)

(* Lines 274-287: entry of train(). *)
Train ==
    /\ pc = "idle"
    /\ ops < MaxCalls
    /\ calls < TrainBudget(config_data)
    /\ ops' = ops + 1
    /\ calls' = calls + 1
    /\ best_eval_return' = NegInf
    /\ episodes_without_improvement' = 0
    /\ it' = 0
    /\ pc' = "loop"
    /\ result' = NoResult
    /\ stopped' = NotStopped
    /\ iter' = NoIter
    /\ callStart' = Session
    /\ check' = NoCheck
    /\ UNCHANGED <<sessionVars, eval_return, training, step, episode_return, steps_log,
                   evalLocals, agent_updates, diskVars, configVars, loaded, tracker,
                   evalLog, saveLog, evalEntry>>

(* The frame of train() is gone once it has returned or raised. *)
LeaveTrain ==
    /\ it' = 0
    /\ best_eval_return' = NegInf
    /\ episodes_without_improvement' = 0
    /\ eval_return' = NegInf
    /\ callStart' = NoEntry
    /\ check' = NoCheck

(* Lines 289-293: `for self.episode in range(self.train_episodes)` yields  *)
(* the next index and the training episode starts.                         *)
LoopNext ==
    /\ pc = "loop"
    /\ it < attrs.train_episodes
    /\ episode' = it
    /\ it' = it + 1
    /\ EnterEpisode(TRUE)
    /\ iter' = [episode |-> it, trained |-> FALSE, evaluated |-> FALSE,
                saved |-> FALSE]
    /\ UNCHANGED <<train_returns, eval_returns, train_steps, best_eval_return,
                   episodes_without_improvement, eval_return, evalLocals,
                   agent_updates, diskVars, configVars, callCounts, result,
                   loaded, tracker, evalLog, saveLog, stopped, evalEntry, callStart,
                   check>>

(* Line 289: the range is exhausted. *)
LoopExit ==
    /\ pc = "loop"
    /\ it >= attrs.train_episodes
    /\ pc' = "return"
    /\ UNCHANGED <<sessionVars, trainLocals, training, step, episode_return, steps_log,
                   evalLocals, agent_updates, diskVars, configVars, callCounts,
                   result, loaded, tracker, evalLog, saveLog, stopped, iter, evalEntry,
                   callStart, check>>

(* Line 299: is an evaluation due after this episode? *)
EvalDue(ep) == ep % attrs.eval_frequency = 0

(* Lines 293-302: the training episode returned; its return is appended    *)
(* and, when due, evaluate(self.eval_episodes) is entered.                 *)
TrainEpisodeDone ==
    /\ pc = "episode_end"
    /\ training
    /\ train_returns' = Append(train_returns, episode_return)
    /\ iter' = [iter EXCEPT !.trained = TRUE]
    /\ LeaveEpisode
    /\ IF EvalDue(episode)
          THEN /\ EnterEvaluate("train", attrs.eval_episodes)
               /\ evalEntry' = [Session EXCEPT !.train_returns = train_returns']
          ELSE /\ pc' = "save"
               /\ UNCHANGED <<evalLocals, evalEntry>>
    /\ UNCHANGED <<episode, eval_returns, train_steps, trainLocals,
                   agent_updates, diskVars, configVars, callCounts, result,
                   loaded, tracker, evalLog, saveLog, stopped, callStart, check>>

(* Lines 302-303: evaluate() returned to train(); the score is appended. *)
EvalReturnToTrain ==
    /\ pc = "eval_loop"
    /\ Len(eval_list) >= num_episodes
    /\ eval_caller = "train"
    /\ eval_return' = Mean(eval_list)
    /\ eval_returns' = Append(eval_returns, Mean(eval_list))
    /\ evalLog' = Append(evalLog, [call |-> calls, episode |-> episode,
                                    score |-> Mean(eval_list)])
    /\ iter' = [iter EXCEPT !.evaluated = TRUE]
    /\ LeaveEvaluate
    /\ pc' = "early_stop"
    /\ UNCHANGED <<episode, train_returns, train_steps, it, best_eval_return,
                   episodes_without_improvement, training, step,
                   episode_return, steps_log, agent_updates, diskVars, configVars,
                   callCounts, result, loaded, tracker, saveLog, stopped, callStart,
                   check>>

(* Line 314: does the round improve on the best one? *)
Improved(s, best) == Exceeds(s, best, attrs.early_stop_min_improvement)

(* Line 324: the stop signal. *)
StopSignal(without) == without >= attrs.early_stop_patience

(* A loop whose stop signal does not leave it. *)
AfterEarlyStopCheck_nobreak(stop) == "save"

(* Lines 324-329: where control goes after the early-stopping check:       *)
(* `break` leaves the loop, otherwise the checkpoint test follows.         *)
AfterEarlyStopCheck(stop) == IF stop THEN "return" ELSE "save"

(* Lines 313-327: the early-stopping check. *)
EarlyStopCheck ==
    /\ pc = "early_stop"
    /\ LET improved == Improved(eval_return, best_eval_return)
           without == IF improved THEN 0
                      ELSE episodes_without_improvement + 1
           stop == StopSignal(without)
       IN  /\ best_eval_return' =
                 IF improved THEN eval_return ELSE best_eval_return
           /\ episodes_without_improvement' = without
           /\ pc' = AfterEarlyStopCheck(stop)
           /\ stopped' = IF stop
                            THEN [fired |-> TRUE, call |-> calls,
                                  episode |-> episode]
                            ELSE stopped
           /\ check' = [done |-> TRUE, score |-> eval_return,
                        best |-> best_eval_return, improved |-> improved,
                        without |-> episodes_without_improvement]
           /\ tracker' = [fired |-> tracker.fired \/ stop,
                          best |-> IF improved THEN eval_return
                                   ELSE best_eval_return,
                          without |-> without,
                          best_before |-> tracker.best,
                          fired_before |-> tracker.fired]
    /\ UNCHANGED <<sessionVars, it, eval_return, training, step,
                   episode_return, steps_log, evalLocals, agent_updates,
                   diskVars, configVars, callCounts, result, loaded, evalLog,
                   saveLog, iter, evalEntry, callStart>>

(* Lines 335-352: train() returns its metrics. *)
TrainReturn ==
    /\ pc = "return"
    /\ result' = Returned("train", [train_returns |-> train_returns,
                                     eval_returns |-> eval_returns,
                                     train_steps |-> train_steps])
    /\ pc' = "idle"
    /\ LeaveTrain
    /\ iter' = NoIter
    /\ UNCHANGED <<sessionVars, training, step, episode_return, steps_log, evalLocals,
                   agent_updates, diskVars, configVars, callCounts, loaded, tracker,
                   evalLog, saveLog, stopped, evalEntry>>

----------------------------------------------------------------------------
(* _save_checkpoint *)

(* Line 330: is a checkpoint due after this episode? *)
SaveDue(ep) == ep % attrs.save_frequency = 0

(* A training state assembled before the episode's return was appended. *)
Checkpoint_stale ==
    [episode |-> episode,
     train_returns |-> SubSeq(train_returns, 1, Len(train_returns) - 1),
     eval_returns |-> eval_returns, train_steps |-> train_steps,
     config |-> config_data]

(* Lines 410-416: the training state that is written. *)
Checkpoint ==
    [episode |-> episode, train_returns |-> train_returns,
     eval_returns |-> eval_returns, train_steps |-> train_steps,
     config |-> config_data]

(* What agent.save and env.save write: the collaborator's own state. *)
AgentBlob == [kind |-> "blob", of |-> "agent", updates |-> agent_updates]
EnvBlob == [kind |-> "blob", of |-> "environment"]

(* open(path, 'w') needs the directory of the file to exist. *)
DirExists(ds, p) == p[1] \in ds /\ p[2] \in ds

(* Line 330, no checkpoint due. *)
SkipSave ==
    /\ pc = "save"
    /\ ~SaveDue(episode)
    /\ pc' = "loop"
    /\ UNCHANGED <<sessionVars, trainLocals, training, step, episode_return, steps_log,
                   evalLocals, agent_updates, diskVars, configVars, callCounts,
                   result, loaded, tracker, evalLog, saveLog, stopped, iter, evalEntry,
                   callStart, check>>

(* Lines 330-333 and 404-425.  save_dir.mkdir creates the save directory   *)
(* alone.  agent.save and env.save are collaborator calls: each either     *)
(* raises, or writes its file (creating its directory when it is missing). *)
(* The training state is then written with open(state_path, 'w'), which    *)
(* raises FileNotFoundError when the "trainings" directory does not exist. *)
SaveCheckpoint ==
    /\ pc = "save"
    /\ SaveDue(episode)
    /\ saveLog' = saveLog \cup {<<calls, episode>>}
    /\ \E agent_ok \in BOOLEAN, env_ok \in BOOLEAN :
         LET paths == get_checkpoint_paths(attrs.save_path, episode)
             dirs0 == dirs \cup {attrs.save_path}
             dirs1 == IF agent_ok THEN dirs0 \cup {paths[1][2]} ELSE dirs0
             files1 == IF agent_ok
                         THEN [files EXCEPT ![paths[1]] = AgentBlob]
                         ELSE files
             dirs2 == IF agent_ok /\ env_ok
                         THEN dirs1 \cup {paths[2][2]} ELSE dirs1
             files2 == IF agent_ok /\ env_ok
                         THEN [files1 EXCEPT ![paths[2]] = EnvBlob]
                         ELSE files1
             opened == agent_ok /\ env_ok /\ DirExists(dirs2, paths[3])
         IN  /\ dirs' = dirs2
             /\ files' = IF opened
                            THEN [files2 EXCEPT ![paths[3]] = json_dump(Checkpoint)]
                            ELSE files2
             /\ IF opened
                  THEN /\ pc' = "loop"
                       /\ iter' = [iter EXCEPT !.saved = TRUE]
                       /\ UNCHANGED <<trainLocals, callStart, check>>
                  ELSE /\ pc' = "idle"
                       /\ iter' = NoIter
                       /\ LeaveTrain
             /\ result' = IF ~agent_ok THEN Raised("train", "AgentSaveError")
                           ELSE IF ~env_ok THEN Raised("train", "EnvSaveError")
                           ELSE IF ~opened
                                  THEN Raised("train", "FileNotFoundError")
                                  ELSE result
    /\ UNCHANGED <<sessionVars, training, step, episode_return, steps_log, evalLocals,
                   agent_updates, configVars, callCounts, loaded, tracker, evalLog,
                   stopped, evalEntry>>

----------------------------------------------------------------------------
(* from_checkpoint *)

RequiredFields ==
    {"episode", "train_returns", "eval_returns", "train_steps", "config"}

(* Line 193: open(checkpoint_file, 'w').  Mode 'w' creates the file when   *)
(* it is absent and truncates it when it exists; the handle is write-only. *)
(* Without the file's directory the call raises FileNotFoundError.         *)
open_w(ds, fs, p) ==
    IF DirExists(ds, p)
      THEN [ok |-> TRUE, content |-> Empty, readable |-> FALSE]
      ELSE [ok |-> FALSE, exc |-> "FileNotFoundError"]

(* Line 195: json.load(f) reads the handle and parses what it read. *)
json_load(handle) ==
    IF ~handle.readable
      THEN [ok |-> FALSE, exc |-> "UnsupportedOperation"]
      ELSE IF handle.content.kind = "json"
             THEN [ok |-> TRUE, obj |-> handle.content.obj]
             ELSE [ok |-> FALSE, exc |-> "JSONDecodeError"]

(* Line 196: `except JSONDecodeError | TypeError | UnicodeDecodeError`.    *)
(* The operand is a types.UnionType, not an exception class or a tuple of  *)
(* them, so matching any raised exception against it raises TypeError.     *)
except_clause(exc) == "TypeError"

(* The load that always raises, except that an absent file gives a         *)
(* controller with an empty session.                                       *)
from_checkpoint_defaulting(ds, fs, p) ==
    IF fs[p] = Absent
      THEN [status |-> "returned", exc |-> "",
            value |-> Trainer([episode |-> 0, train_returns |-> <<>>,
                               eval_returns |-> <<>>, train_steps |-> 0]),
            file |-> fs[p]]
      ELSE [status |-> "raised", exc |-> "TypeError", value |-> NoValue,
            file |-> Empty]

(* Lines 193-207: what from_checkpoint(agent, env, p) does on a disk: how  *)
(* it ends and what the file holds afterwards.  The statements after the   *)
(* `with` block run only when json.load returned; they index the required  *)
(* fields and fall off the end of the function, which returns None.        *)
from_checkpoint_outcome(ds, fs, p) ==
    LET h == open_w(ds, fs, p)
    IN  IF ~h.ok
          THEN [status |-> "raised", exc |-> h.exc, value |-> NoValue,
                file |-> fs[p]]
          ELSE LET j == json_load(h)
               IN  IF ~j.ok
                     THEN [status |-> "raised", exc |-> except_clause(j.exc),
                           value |-> NoValue, file |-> h.content]
                     ELSE IF ~(RequiredFields \subseteq DOMAIN j.obj)
                            THEN [status |-> "raised", exc |-> "KeyError",
                                  value |-> NoValue, file |-> h.content]
                            ELSE [status |-> "returned", exc |-> "",
                                  value |-> PyNone, file |-> h.content]

(* AgentTrainer.from_checkpoint(agent, env, checkpoint_file) on the        *)
(* training-state file of some episode.                                    *)
FromCheckpoint ==
    /\ pc = "idle"
    /\ ops < MaxCalls
    /\ ops' = ops + 1
    /\ \E p \in StatePaths :
         LET o == from_checkpoint_outcome(dirs, files, p)
         IN  /\ files' = [files EXCEPT ![p] = o.file]
             /\ loaded' = [status |-> o.status, exc |-> o.exc,
                           value |-> o.value, path |-> p,
                           before |-> files[p], after |-> o.file]
    /\ UNCHANGED <<sessionVars, pc, trainLocals, training, step,
                   episode_return, steps_log, evalLocals, agent_updates, dirs,
                   configVars, calls, result, evalLog, saveLog,
                   stopped, iter, evalEntry, callStart, check, tracker>>

----------------------------------------------------------------------------

Next ==
    \/ Train
    \/ LoopNext
    \/ LoopExit
    \/ EpisodeStep
    \/ TrainEpisodeDone
    \/ EvalNext
    \/ EvalEpisodeDone
    \/ EvalReturnToTrain
    \/ EvalReturnToUser
    \/ EarlyStopCheck
    \/ SkipSave
    \/ SaveCheckpoint
    \/ TrainReturn
    \/ Evaluate
    \/ FromCheckpoint

Spec == Init /\ [][Next]_vars

(* Construction from a configuration that may lack one parameter. *)

(* The parameters the class documents (lines 45-57). *)
RequiredParams ==
    {"train_episodes", "eval_episodes", "eval_frequency",
     "max_steps_per_episode", "save_frequency", "save_path", "log_path",
     "early_stop_patience", "early_stop_min_improvement"}

(* The configuration c with the parameter k left out. *)
Without(c, k) == [x \in DOMAIN c \ {k} |-> c[x]]

(* The complete configurations parameters are left out of. *)
CompleteConfigs == { Config(3, 2, 2, 1, 2, 2, 1) }

ConstructConfigs ==
    CompleteConfigs \cup
    { Without(c, k) : c \in CompleteConfigs, k \in RequiredParams }

InitConstruct == Constructed(ConstructConfigs)

SpecConstruct == InitConstruct /\ [][Next]_vars

----------------------------------------------------------------------------
(* Properties of the session load. *)

(* A file that holds a complete training state, as _save_checkpoint writes. *)
IsSnapshot(content) ==
    /\ content.kind = "json"
    /\ RequiredFields \subseteq DOMAIN content.obj

SessionOf(obj) ==
    [episode |-> obj.episode, train_returns |-> obj.train_returns,
     eval_returns |-> obj.eval_returns, train_steps |-> obj.train_steps]

(* C1: resumption does not restart.  Loading a complete snapshot gives a   *)
(* controller, and a train() call entered on a session whose episode k has *)
(* completed (train_returns of length k+1) runs no episode with index <= k: *)
(* the episodes it runs have indices above k.                              *)
C1_ResumeContinues ==
    /\ (loaded.status # "none" /\ IsSnapshot(loaded.before))
          => (loaded.status = "returned" /\ loaded.value.kind = "trainer")
    /\ (/\ iter.episode >= 0
        /\ callStart.episode >= 0
        /\ Len(callStart.train_returns) = callStart.episode + 1)
          => iter.episode > callStart.episode

(* C2: round trip.  Loading a file that _save_checkpoint wrote returns a   *)
(* controller whose episode, train_returns, eval_returns and train_steps   *)
(* equal the saved ones.                                                   *)
C2_RoundTrip ==
    (loaded.status # "none" /\ IsSnapshot(loaded.before))
      => /\ loaded.status = "returned"
         /\ loaded.value = Trainer(SessionOf(loaded.before.obj))

(* C3: the load leaves the snapshot file as it found it, whether it        *)
(* returns or raises.                                                      *)
C3_LoadKeepsFile ==
    (loaded.status # "none" /\ IsSnapshot(loaded.before))
      => loaded.after = loaded.before

(* The files a load must reject: absent, not parseable, a field missing.   *)
MustBeRejected(content) ==
    \/ content = Absent
    \/ content.kind = "text"
    \/ content.kind = "json" /\ ~(RequiredFields \subseteq DOMAIN content.obj)

(* C4: a load of an absent file, of an unparseable file or of a file that  *)
(* lacks a required field ends with an error and hands back no controller. *)
C4_BadFileRaises ==
    (loaded.status # "none" /\ MustBeRejected(loaded.before))
      => (loaded.status = "raised" /\ loaded.value = NoValue)

(* C4: a file without the train_steps field has been loaded and the load   *)
(* raised.                                                                 *)
C4_Witness ==
    /\ loaded.status = "raised"
    /\ loaded.before = Partial

(* The other two cases of C4 are reached as well. *)
C4_WitnessAbsent == loaded.status = "raised" /\ loaded.before = Absent

C4_WitnessUnparseable ==
    loaded.status = "raised" /\ loaded.before.kind = "text"

----------------------------------------------------------------------------
(* Properties of the training loop. *)

IsPrefix(a, b) == Len(a) <= Len(b) /\ SubSeq(b, 1, Len(a)) = a

(* Control is inside the loop of train(), or in a call made from it. *)
InTrainLoop ==
    \/ pc \in {"loop", "save", "early_stop", "return"}
    \/ pc \in {"step", "episode_end"} /\ (training \/ eval_caller = "train")
    \/ pc = "eval_loop" /\ eval_caller = "train"

(* C5: once the stop signal has fired at episode k, the loop is left: the  *)
(* call only returns, the episode index stays k until another train() call *)
(* starts, and no save was invoked for episode k in that call.             *)
C5_StopLeavesLoop ==
    stopped.fired
      => /\ InTrainLoop => pc = "return"
         /\ calls = stopped.call => episode = stopped.episode
         /\ <<stopped.call, stopped.episode>> \notin saveLog

(* C5: a call stopped early at an episode that is not the last one and at  *)
(* which a checkpoint was due, and has returned.                           *)
C5_Witness ==
    /\ stopped.fired
    /\ pc = "idle"
    /\ result.status = "returned"
    /\ SaveDue(stopped.episode)
    /\ stopped.episode + 1 < attrs.train_episodes

(* C6: the margin of the early-stopping check is the configured            *)
(* early_stop_min_improvement: a round with score s improves iff           *)
(* s > best_score + early_stop_min_improvement.                            *)
C6_MarginIsMinImprovement ==
    check.done
      => (check.improved <=>
            Exceeds(check.score, check.best,
                    config_data.early_stop_min_improvement))

(* C7: entry i of eval_returns (counted from 0) is the score of the        *)
(* evaluation round run after training episode i * eval_frequency.         *)
C7_EvalIndexIsEpisode ==
    /\ Len(evalLog) = Len(eval_returns)
    /\ \A i \in 1..Len(eval_returns) :
          /\ eval_returns[i] = evalLog[i].score
          /\ evalLog[i].episode = (i - 1) * attrs.eval_frequency

(* C8: once the running episode's return has been appended, train_returns  *)
(* has episode + 1 entries; and every step leaves train_returns and        *)
(* eval_returns as they were or with entries appended at the end.          *)
C8_SessionInvariant ==
    [][/\ iter'.trained => Len(train_returns') = episode' + 1
       /\ IsPrefix(train_returns, train_returns')
       /\ IsPrefix(eval_returns, eval_returns')]_vars

(* C9: right after the checkpoint of episode k was written, the training   *)
(* state file of k holds episode = k and the session as it stands, the     *)
(* return of episode k appended and, when an evaluation was due at k, its   *)
(* score appended.                                                         *)
C9_SnapshotIsCurrent ==
    (pc = "loop" /\ iter.saved)
      => /\ files[get_checkpoint_paths(attrs.save_path, episode)[3]] =
              json_dump([episode |-> episode,
                         train_returns |-> train_returns,
                         eval_returns |-> eval_returns,
                         train_steps |-> train_steps,
                         config |-> config_data])
         /\ iter.episode = episode
         /\ iter.trained
         /\ EvalDue(episode) => iter.evaluated
         /\ Len(eval_returns) = Len(evalLog)
         /\ EvalDue(episode) =>
               /\ evalLog[Len(evalLog)].episode = episode
               /\ evalLog[Len(evalLog)].call = calls

(* C9: a checkpoint was written at an episode after the first one at which *)
(* an evaluation was due as well.                                          *)
C9_Witness ==
    /\ pc = "loop"
    /\ iter.saved
    /\ episode > 0
    /\ EvalDue(episode)

(* ... and at an episode at which no evaluation was due. *)
C9_WitnessNoEval == pc = "loop" /\ iter.saved /\ ~EvalDue(episode)

(* C10: while evaluate() runs, whether called from train() or by the user, *)
(* the session is as it was on entry, and train_steps counts the           *)
(* agent.update calls: none is made in evaluation mode, one per step in     *)
(* training mode.                                                          *)
C10_EvaluationHasNoEffect ==
    /\ train_steps = agent_updates
    /\ eval_caller # "none" => Session = evalEntry

(* C10: a user's evaluate() call has returned on a session that has        *)
(* trained.                                                                *)
C10_Witness ==
    /\ result.call = "evaluate"
    /\ result.status = "returned"
    /\ train_steps > 0
    /\ Len(eval_returns) > 0

----------------------------------------------------------------------------
(* Properties of the training loop's sequencing. *)

(* What agent.save and env.save raise when they fail. *)
CollaboratorErrors == {"AgentSaveError", "EnvSaveError"}

(* The first train() call of the session has ended, by returning or by an  *)
(* exception of its own, without the stop signal.                          *)
FirstCallEndedUnstopped ==
    /\ pc = "idle"
    /\ calls = 1
    /\ result.call = "train"
    /\ ~stopped.fired
    /\ result.status = "raised" => result.exc \notin CollaboratorErrors

(* ceil(n / d) for positive d. *)
CeilDiv(n, d) == (n + d - 1) \div d

(* C11: in a fresh session that is not early-stopped, train() runs exactly *)
(* train_episodes training episodes, with indices 0, 1, ... in increasing  *)
(* order, and one evaluation round after exactly the episodes whose index  *)
(* is a multiple of eval_frequency, so that eval_returns ends with         *)
(* ceil(train_episodes / eval_frequency) entries.                          *)
C11_FullRun ==
    /\ (calls = 1 /\ InTrainLoop /\ iter.episode >= 0) =>
          /\ iter.episode = episode
          /\ Len(train_returns) = episode + (IF iter.trained THEN 1 ELSE 0)
    /\ FirstCallEndedUnstopped =>
          /\ Len(train_returns) = attrs.train_episodes
          /\ episode = attrs.train_episodes - 1
          /\ Len(eval_returns) =
                CeilDiv(attrs.train_episodes, attrs.eval_frequency)
          /\ Len(evalLog) = Len(eval_returns)
          /\ \A i \in 1..Len(evalLog) :
                /\ evalLog[i].episode = (i - 1) * attrs.eval_frequency
                /\ evalLog[i].score = eval_returns[i]

----------------------------------------------------------------------------
(* Properties of the checkpoint files. *)

(* Directories get_checkpoint_paths is applied to. *)
SaveDirs == {SavePath, LogPath}

(* The set of the three paths of (directory, episode). *)
PathSet(d, k) == { get_checkpoint_paths(d, k)[i] : i \in 1..3 }

(* The three paths of one (directory, episode index) are pairwise distinct *)
(* and shared with no other episode index of that directory.               *)
PathsPairwiseDistinct ==
    \A d \in SaveDirs, k \in Episodes :
       /\ Cardinality(PathSet(d, k)) = 3
       /\ \A j \in Episodes \ {k} : PathSet(d, k) \cap PathSet(d, j) = {}

(* C12: the three paths of one (directory, episode index) are pairwise     *)
(* distinct, and under one directory two different episode indices share   *)
(* no path (all three file names are agent_ep<k>.pt: the subdirectory      *)
(* tells the artifacts apart, the index the episodes); so a completed save *)
(* leaves three files, each with its own content.                          *)
C12_PathsDistinct ==
    /\ PathsPairwiseDistinct
    /\ (pc = "loop" /\ iter.saved) =>
          LET paths == get_checkpoint_paths(attrs.save_path, episode)
          IN  /\ files[paths[1]] = AgentBlob
              /\ files[paths[2]] = EnvBlob
              /\ files[paths[3]].kind = "json"

(* C12: one train() call has saved the checkpoints of two episodes, and    *)
(* the six files are there.                                                *)
C12_Witness ==
    /\ pc = "loop"
    /\ iter.saved
    /\ episode > 0
    /\ <<calls, 0>> \in saveLog
    /\ \A p \in PathSet(attrs.save_path, 0) \cup
                PathSet(attrs.save_path, episode) : files[p] # Absent

(* C13: a save is all-or-error.  It makes sure the directories it writes   *)
(* into exist, so it never fails for lack of one; a save that completes    *)
(* has written all three artifacts; a save that does not complete ends     *)
(* train() with the exception, and is never passed over in silence.        *)
C13_SaveAllOrError ==
    /\ (pc = "loop" /\ iter.saved) =>
          LET paths == get_checkpoint_paths(attrs.save_path, episode)
          IN  /\ \A i \in 1..3 : DirExists(dirs, paths[i])
              /\ files[paths[1]] = AgentBlob
              /\ files[paths[2]] = EnvBlob
              /\ files[paths[3]] = json_dump(Checkpoint)
    /\ (InTrainLoop /\ <<calls, iter.episode>> \in saveLog) => iter.saved
    /\ (result.call = "train" /\ result.status = "raised") =>
          /\ pc = "idle"
          /\ result.exc \in CollaboratorErrors

----------------------------------------------------------------------------
(* Properties of construction. *)

(* C14: constructing the controller with a configuration that lacks one of *)
(* the nine required parameters fails with a configuration error, and no   *)
(* controller exists to run an episode.                                    *)
C14_MissingParamFails ==
    ~(RequiredParams \subseteq DOMAIN config_data) =>
        /\ ctor = "KeyError"
        /\ pc = "no_controller"
        /\ train_returns = <<>>
        /\ train_steps = 0

----------------------------------------------------------------------------
(* Properties of early stopping. *)

(* The margin the configuration asks for. *)
ConfiguredMargin == config_data.early_stop_min_improvement

(* C15: one early-stopping transition per evaluation round.  With s the    *)
(* round's score: if s > best + min_improvement then best becomes s and    *)
(* the counter 0; otherwise best is unchanged and the counter grows by 1.  *)
C15_TrackerTransition ==
    check.done =>
       IF Exceeds(check.score, check.best, ConfiguredMargin)
         THEN /\ best_eval_return = check.score
              /\ episodes_without_improvement = 0
         ELSE /\ best_eval_return = check.best
              /\ episodes_without_improvement = check.without + 1

(* The evaluation rounds of the running train() call, oldest first. *)
CallRounds == SelectSeq(evalLog, LAMBDA e : e.call = calls)

(* No round after the first exceeded the first score by more than the      *)
(* configured margin, so the first score is still the best one.            *)
NoLaterImprovement ==
    \A i \in 2..Len(CallRounds) :
       ~Exceeds(CallRounds[i].score, CallRounds[1].score, ConfiguredMargin)

(* C16: with patience p >= 1 the stop signal does not fire before p + 1    *)
(* evaluation rounds have completed, and when no round after the first     *)
(* exceeds best + min_improvement it fires exactly after round p + 1.      *)
C16_StopAfterPatience ==
    (check.done /\ pc # "early_stop") =>
       /\ stopped.fired => Len(CallRounds) >= attrs.early_stop_patience + 1
       /\ (NoLaterImprovement
             /\ Len(CallRounds) = attrs.early_stop_patience + 1)
            => stopped.fired

(* a >= b for evaluation scores, float('-inf') being below every score. *)
ScoreGeq(a, b) ==
    \/ b.den = 0
    \/ a.den # 0 /\ a.num * b.den >= b.num * a.den

(* C17: over one session, a second train() call included, the tracker is a *)
(* one-way ratchet that is never reset: the best score never decreases,    *)
(* the counter is what the last evaluation round of the session left (so   *)
(* only an improving round sets it to 0), and once the stop signal has     *)
(* fired no training episode runs any more.                                *)
C17_OneWayRatchet ==
    /\ ScoreGeq(tracker.best, tracker.best_before)
    /\ InTrainLoop => episodes_without_improvement = tracker.without
    /\ (check.done /\ episodes_without_improvement = 0) => check.improved
    /\ tracker.fired => ~(training /\ pc \in {"step", "episode_end"})

----------------------------------------------------------------------------
(* Properties of checkpointing in the loop. *)

(* The episode index in the file name of a path. *)
EpisodeOfPath(p) == p[3][2]

(* C18: checkpoint files are append-only by episode index.  The step that  *)
(* follows an episode's evaluation invokes a save exactly when the episode *)
(* index is a multiple of save_frequency, and a save at episode k changes  *)
(* no file keyed by another index.                                         *)
C18_SaveTouchesOnlyItsEpisode ==
    [][ /\ pc = "save" =>
             /\ <<calls, episode>> \notin saveLog
             /\ SaveDue(episode) <=> <<calls, episode>> \in saveLog'
        /\ saveLog' # saveLog =>
             \A p \in Paths :
                EpisodeOfPath(p) # episode => files'[p] = files[p]
        /\ (pc' = "loop" /\ iter'.episode >= 0) =>
             (iter'.saved <=> SaveDue(iter'.episode)) ]_vars

(* C18: a later save of the same call has been made, and the training      *)
(* state written at episode 0 is still the one of episode 0.               *)
C18_Witness ==
    /\ pc = "loop"
    /\ iter.saved
    /\ episode > 0
    /\ <<calls, 0>> \in saveLog
    /\ LET f == files[get_checkpoint_paths(attrs.save_path, 0)[3]]
       IN  f.kind = "json" /\ f.obj.episode = 0

----------------------------------------------------------------------------
(* Properties of the episode runner. *)

(* The rewards of the steps taken so far, in order. *)
RewardsTaken == [i \in 1..Len(steps_log) |-> steps_log[i][1]]

(* Was step i of the running episode done (terminated or truncated)? *)
DoneAt(i) == steps_log[i][2]

(* C19: an episode takes at most max_steps_per_episode steps, takes no     *)
(* step after the first one that is done, and returns the sum of the       *)
(* rewards of exactly the steps taken: the first reward alone when the     *)
(* first step is done, all max_steps_per_episode rewards when none is.     *)
C19_EpisodeBounded ==
    pc \in {"step", "episode_end"} =>
       /\ step = Len(steps_log)
       /\ step <= attrs.max_steps_per_episode
       /\ episode_return = Sum(RewardsTaken)
       /\ \A i \in 1..(step - 1) : ~DoneAt(i)
       /\ pc = "step" =>
             /\ step < attrs.max_steps_per_episode
             /\ step > 0 => ~DoneAt(step)
       /\ pc = "episode_end" =>
             \/ step > 0 /\ DoneAt(step)
             \/ step = attrs.max_steps_per_episode

(* C19: an episode that was never done ran its two steps and returns the   *)
(* sum of both rewards.                                                    *)
C19_Witness ==
    /\ pc = "episode_end"
    /\ attrs.max_steps_per_episode = 2
    /\ step = 2
    /\ ~DoneAt(2)
    /\ episode_return = 2

(* ... and an episode done at its first step returns that reward alone. *)
C19_WitnessFirstStep ==
    /\ pc = "episode_end"
    /\ attrs.max_steps_per_episode = 2
    /\ step = 1
    /\ DoneAt(1)
    /\ episode_return = 1

----------------------------------------------------------------------------
(* Properties of the end of train(). *)

(* Training episodes the running train() call has completed. *)
EpisodesRun == Len(train_returns) - Len(callStart.train_returns)

(* C20: when every call into the agent and the environment returns, a      *)
(* train() call ends by returning: early-stopped, or completed after       *)
(* exactly train_episodes episodes when no stop signal fired, never after  *)
(* more, and with the record of the full train_returns, eval_returns and   *)
(* train_steps as its result in both cases.                                *)
C20_TrainEndsWithResult ==
    /\ InTrainLoop => EpisodesRun <= attrs.train_episodes
    /\ pc = "return" =>
          \/ stopped.fired
          \/ it = attrs.train_episodes /\ EpisodesRun = attrs.train_episodes
    /\ (pc = "idle" /\ result.call = "train") =>
          IF result.status = "returned"
            THEN result.value = [train_returns |-> train_returns,
                                 eval_returns |-> eval_returns,
                                 train_steps |-> train_steps]
            ELSE result.exc \in CollaboratorErrors

====
